---- MODULE Spec2Model ----
(***************************************************************************)
(* Two-tier screening agent (src/src/agents/screening_agent.py).           *)
(*                                                                         *)
(* The model follows one caller that invokes the six tier operations of    *)
(* CitationClassifier and DetailedScreener one at a time.  Every operation *)
(* is a `while True` loop around one provider call; one step of the model  *)
(* is one pass through that loop: the provider call, add_cost, the marker  *)
(* search and the return / continue / raise that ends the pass.            *)
(*                                                                         *)
(* Response texts are sequences of characters and re.search is computed on *)
(* the characters.  Costs are whole multiples of a cost unit.              *)
(***************************************************************************)
EXTENDS Integers, Sequences, FiniteSets, TLC

\* ------------------------------------------------------------------ bounds

\* Provider calls made in one behaviour.
MaxCalls == 3

\* Updates a behaviour makes to a ScreeningMetrics it uses on its own.
MaxUpdates == 6
\* Pieces concatenated into one response text.
MaxPieces == 2

\* ------------------------------------------------------------- provider

\* Fragments the provider's response texts are assembled from: the three
\* markers, in mixed letter case, and a fragment that holds no marker (and
\* starts like one).
Pieces ==
    { <<"x", "x", "X">>, <<"y", "Y", "y">>, <<"Z", "Z", "Z">>, <<"X", "o">> }

RECURSIVE TextsOf(_)
TextsOf(n) ==
    IF n = 0 THEN { <<>> }
    ELSE LET shorter == TextsOf(n - 1)
         IN  shorter \cup { t \o p : t \in shorter, p \in Pieces }

\* The response texts the provider may return.
Texts == TextsOf(MaxPieces)

\* The cost figures the provider may return with a response, in cost units:
\* a call that costs nothing and a call that costs one unit.
Costs == { 0, 1 }

\* The exceptions a provider call may raise.
Exceptions == { "APITimeoutError", "RateLimitError" }

NoText == << "<none>" >>
NoValue == "<none>"
NoException == "<none>"
NoMarker == "<no marker>"

\* ------------------------------------------------------------- re.search

\* str.upper on one character (re.IGNORECASE compares case-folded characters).
Upper(c) ==
    CASE c = "x" -> "X"
      [] c = "y" -> "Y"
      [] c = "z" -> "Z"
      [] c = "o" -> "O"
      [] OTHER -> c

search_case_sensitive(marker, text) ==
    \E i \in 1 .. (Len(text) - Len(marker) + 1) :
        \A j \in 1 .. Len(marker) : text[i + j - 1] = marker[j]

\* re.search(marker, text, re.IGNORECASE) is not None, for a pattern of
\* literal characters: the pattern matches at some position of the text.
search(marker, text) ==
    \E i \in 1 .. (Len(text) - Len(marker) + 1) :
        \A j \in 1 .. Len(marker) : Upper(text[i + j - 1]) = Upper(marker[j])

XXX == <<"X", "X", "X">>
YYY == <<"Y", "Y", "Y">>
ZZZ == <<"Z", "Z", "Z">>

\* ------------------------------------------------------ ScreeningMetrics

\* ScreeningMetrics.__init__
NewMetrics == [ total_cost |-> 0, total_disagreements |-> 0, total_processed |-> 0 ]

add_cost_assign(m, cost) == [ m EXCEPT !.total_cost = cost ]

\* ScreeningMetrics.add_cost
add_cost(m, cost) == [ m EXCEPT !.total_cost = @ + cost ]

\* ScreeningMetrics.add_disagreement
add_disagreement(m) == [ m EXCEPT !.total_disagreements = @ + 1 ]

\* ScreeningMetrics.increment_processed
increment_processed(m) == [ m EXCEPT !.total_processed = @ + 1 ]

\* max(a, b)
Max(a, b) == IF a >= b THEN a ELSE b

get_summary_plain_division(m) ==
    [ total_cost |-> m.total_cost,
      total_disagreements |-> m.total_disagreements,
      total_processed |-> m.total_processed,
      avg_cost_per_article |->
          [ dividend |-> m.total_cost, divisor |-> m.total_processed ] ]

\* ScreeningMetrics.get_summary.  The quotient total_cost / max(total_processed, 1)
\* is kept as its dividend and divisor.
get_summary(m) ==
    [ total_cost |-> m.total_cost,
      total_disagreements |-> m.total_disagreements,
      total_processed |-> m.total_processed,
      avg_cost_per_article |->
          [ dividend |-> m.total_cost, divisor |-> Max(m.total_processed, 1) ] ]

get_metrics_summary_classifier_twice(ms) ==
    LET classifier_metrics == get_summary(ms["classifier"])
        detailed_metrics == get_summary(ms["detailed_screener"])
    IN  [ classifier |-> classifier_metrics,
          detailed_screener |-> detailed_metrics,
          total_cost |-> classifier_metrics.total_cost + classifier_metrics.total_cost,
          total_disagreements |->
              classifier_metrics.total_disagreements
                  + detailed_metrics.total_disagreements ]

\* TwoTierScreeningAgent.get_metrics_summary, on the two tiers' metrics
get_metrics_summary(ms) ==
    LET classifier_metrics == get_summary(ms["classifier"])
        detailed_metrics == get_summary(ms["detailed_screener"])
    IN  [ classifier |-> classifier_metrics,
          detailed_screener |-> detailed_metrics,
          total_cost |-> classifier_metrics.total_cost + detailed_metrics.total_cost,
          total_disagreements |->
              classifier_metrics.total_disagreements
                  + detailed_metrics.total_disagreements ]

\* ------------------------------------------------- the marker if-chains

classify_decision_yyy_first(text) ==
    IF search(YYY, text) THEN "uncertain"
    ELSE IF search(XXX, text) THEN "potentially relevant"
    ELSE IF search(ZZZ, text) THEN "likely irrelevant"
    ELSE NoMarker

classify_decision_no_zzz(text) ==
    IF search(XXX, text) THEN "potentially relevant"
    ELSE IF search(YYY, text) THEN "uncertain"
    ELSE NoMarker

\* CitationClassifier.classify, the if/elif chain
classify_decision(text) ==
    IF search(XXX, text) THEN "potentially relevant"
    ELSE IF search(YYY, text) THEN "uncertain"
    ELSE IF search(ZZZ, text) THEN "likely irrelevant"
    ELSE NoMarker

\* CitationClassifier.review_classification, the if/elif chain
review_classification_agreement(text) ==
    IF search(XXX, text) THEN "True"
    ELSE IF search(YYY, text) THEN "False"
    ELSE NoMarker

\* CitationClassifier.improve_classification, the if/elif chain
improve_classification_decision(text) ==
    IF search(XXX, text) THEN "potentially relevant"
    ELSE IF search(YYY, text) THEN "uncertain"
    ELSE IF search(ZZZ, text) THEN "likely irrelevant"
    ELSE NoMarker

\* DetailedScreener.screen, the if/elif chain
screen_decision(text) ==
    IF search(YYY, text) THEN "included"
    ELSE IF search(XXX, text) THEN "excluded"
    ELSE NoMarker

\* DetailedScreener.review_screening, the if/elif chain
review_screening_agreement_yyy_first(text) ==
    IF search(YYY, text) THEN "False"
    ELSE IF search(XXX, text) THEN "True"
    ELSE NoMarker

review_screening_agreement(text) ==
    IF search(XXX, text) THEN "True"
    ELSE IF search(YYY, text) THEN "False"
    ELSE NoMarker

improve_screening_decision_yyy_first(text) ==
    IF search(YYY, text) THEN "included"
    ELSE IF search(XXX, text) THEN "excluded"
    ELSE NoMarker

\* DetailedScreener.improve_screening, the if/elif chain
improve_screening_decision(text) ==
    IF search(XXX, text) THEN "excluded"
    ELSE IF search(YYY, text) THEN "included"
    ELSE NoMarker

\* ------------------------------------------------------------ operations

ClassifierOps == { "classify", "review_classification", "improve_classification" }
DetailedOps == { "screen", "review_screening", "improve_screening" }
Ops == ClassifierOps \cup DetailedOps

Tiers == { "classifier", "detailed_screener" }

TierOf_shared(o) == "classifier"

\* The tier whose self.metrics an operation updates.
TierOf(o) == IF o \in ClassifierOps THEN "classifier" ELSE "detailed_screener"

\* The value the if/elif chain of operation o assigns for a response text.
Decide(o, text) ==
    CASE o = "classify" -> classify_decision(text)
      [] o = "review_classification" -> review_classification_agreement(text)
      [] o = "improve_classification" -> improve_classification_decision(text)
      [] o = "screen" -> screen_decision(text)
      [] o = "review_screening" -> review_screening_agreement(text)
      [] o = "improve_screening" -> improve_screening_decision(text)

on_malformed_default(o, text) ==
    [ kind |-> "returned", text |-> text, exc |-> NoException,
      value |-> IF o \in { "review_classification", "review_screening" } THEN "False"
                ELSE IF o \in ClassifierOps THEN "likely irrelevant"
                ELSE "excluded" ]

on_malformed_raise(o, text) ==
    [ kind |-> "raised", text |-> NoText, exc |-> "UnparseableOutput", value |-> NoValue ]

\* The else branch of every if/elif chain: log a warning and `continue`.
on_malformed(o, text) ==
    [ kind |-> "none", text |-> NoText, exc |-> NoException, value |-> NoValue ]

\* One pass of the loop in which the provider call returned (text, cost):
\* what the pass yields to the caller.
on_response(o, text) ==
    IF Decide(o, text) = NoMarker
    THEN on_malformed(o, text)
    ELSE [ kind |-> "returned", text |-> text, exc |-> NoException,
           value |-> Decide(o, text) ]

on_exception_default(o, e) ==
    [ kind |-> "returned", text |-> <<>>, exc |-> NoException,
      value |-> IF o \in { "review_classification", "review_screening" } THEN "False"
                ELSE IF o \in ClassifierOps THEN "likely irrelevant"
                ELSE "excluded" ]

\* `except Exception as e: logger.error(...); raise`
on_exception(o, e) ==
    [ kind |-> "raised", text |-> NoText, exc |-> e, value |-> NoValue ]

metrics_after_response_counts_reviews(o, m, text, cost) ==
    IF /\ o \in { "review_classification", "review_screening" }
       /\ (search(XXX, text) \/ search(YYY, text))
    THEN add_disagreement(add_cost(m, cost))
    ELSE add_cost(m, cost)

metrics_after_exception_rollback(o, m) == NewMetrics

\* The metrics of a tier after a pass whose provider call raised: the
\* except clause logs and re-raises.
metrics_after_exception(o, m) == m

\* The metrics of a tier after a pass whose provider call returned cost.
metrics_after_response(o, m, text, cost) == add_cost(m, cost)

\* ------------------------------------------- the documented marker tables

\* The markers each operation's table lists.
Markers(o) ==
    IF o \in { "classify", "improve_classification" } THEN { "XXX", "YYY", "ZZZ" }
    ELSE { "XXX", "YYY" }

\* A text with its letters put in upper case, as one string per character.
UpperText(text) == [ i \in 1 .. Len(text) |-> Upper(text[i]) ]

\* Whether a text holds a marker, in any letter case, anywhere.
Contains(text, m) ==
    LET c == CASE m = "XXX" -> "X" [] m = "YYY" -> "Y" [] m = "ZZZ" -> "Z"
    IN  \E i \in 1 .. Len(text) :
            /\ i + 2 <= Len(text)
            /\ SubSeq(UpperText(text), i, i + 2) = << c, c, c >>

\* The markers of operation o's table that occur in each text.
PresentOf ==
    [ o \in Ops |-> [ text \in Texts |-> { m \in Markers(o) : Contains(text, m) } ] ]

\* The outcome each operation's table maps a marker to.
Mapped(o, m) ==
    CASE o \in { "classify", "improve_classification" } ->
            ( CASE m = "XXX" -> "potentially relevant"
                [] m = "YYY" -> "uncertain"
                [] m = "ZZZ" -> "likely irrelevant" )
      [] o \in { "screen", "improve_screening" } ->
            ( CASE m = "YYY" -> "included" [] m = "XXX" -> "excluded" )
      [] o \in { "review_classification", "review_screening" } ->
            ( CASE m = "XXX" -> "True" [] m = "YYY" -> "False" )

\* The priority order in which each operation's table is scanned.
Priority(o) ==
    CASE o \in { "classify", "improve_classification" } -> << "XXX", "YYY", "ZZZ" >>
      [] o = "screen" -> << "YYY", "XXX" >>
      [] OTHER -> << "XXX", "YYY" >>

\* The outcome of the first marker, in priority order, among a set of markers.
FirstOf(o, present) ==
    LET order == Priority(o)
        k == CHOOSE i \in 1 .. Len(order) :
                /\ order[i] \in present
                /\ \A j \in 1 .. (i - 1) : order[j] \notin present
    IN  Mapped(o, order[k])

\* ------------------------------------------------------------------ state

VARIABLES
    metrics,    \* tier -> its ScreeningMetrics
    pc,         \* "idle": no operation in progress; "loop": inside an operation's loop
    op,         \* the operation in progress, or the last one
    outcome,    \* what the last operation yielded: nothing yet, a return, a raise
    provider,   \* the provider's side of the current operation
    history,    \* per tier, what has happened since construction
    summary,    \* what get_metrics_summary last returned to the caller
    threads,    \* caller threads sharing the agent: thread -> where it stands
    transport,  \* the provider client: its configuration and its call in progress
    singletons, \* the module globals _config and _client, and who holds what
    wire,       \* the prompt an operation was given and the calls it issued
    tally,      \* a ScreeningMetrics used on its own, and its last summary
    dedup,      \* a remove_duplicates call: its locals, its output file, its stats
    ris,        \* a RISParser: its fields, the lines read, the entries collected
    matrix,     \* an evaluate_reference call: the title sets and the metrics
    batch       \* a batch call: the mapping, the calls made, the results

\* The state of the agent, its tiers and their caller.
agent == << metrics, pc, op, outcome, provider, history, summary >>

\* What only the specifications of the caller's threads and of the provider
\* client change.
others == << threads, transport, singletons, wire, tally, dedup, ris, matrix, batch >>

\* What the steps of the caller's threads, of the provider client, of the
\* module globals and of the prompts leave alone, besides the agent.
outsideThreads == << transport, singletons, wire, tally, dedup, ris, matrix, batch >>
outsideTransport == << threads, singletons, wire, tally, dedup, ris, matrix, batch >>
outsideConfig == << threads, transport, wire, tally, dedup, ris, matrix, batch >>
outsideWire == << threads, transport, singletons, tally, dedup, ris, matrix, batch >>
outsideTally == << threads, transport, singletons, wire, dedup, ris, matrix, batch >>
outsideDedup == << threads, transport, singletons, wire, tally, ris, matrix, batch >>
outsideRis == << threads, transport, singletons, wire, tally, dedup, matrix, batch >>
outsideMatrix == << threads, transport, singletons, wire, tally, dedup, ris, batch >>
outsideBatch == << threads, transport, singletons, wire, tally, dedup, ris, matrix >>

vars == << agent, others >>

\* The threads of a caller that shares one agent among them.
Threads == { "T1", "T2" }

\* No summary has been asked for since the caller's last operation.
NoSummary == [ total_cost |-> -1 ]

NoOutcome == [ kind |-> "none", text |-> NoText, exc |-> NoException, value |-> NoValue ]

\* The module globals before anything was asked of them.  config: the
\* AppConfig that _config refers to, as the number of its construction, 0 for
\* None; keys: for each AppConfig constructed, whether it found an API key;
\* client: the LLMClient that _client refers to, as the number of its
\* construction, 0 for None; client_config: the AppConfig that client holds;
\* clients: LLMClient objects constructed; returned: the clients
\* get_llm_client has returned; agents: the AppConfigs held by the
\* orchestrators constructed; last: what the last call yielded.
NoSingletons ==
    [ config |-> 0, keys |-> << >>, client |-> 0, client_config |-> 0,
      clients |-> 0, returned |-> {}, agents |-> {}, last |-> "none" ]

\* No remove_duplicates call has been made.  pc: "idle", "files" (at the
\* `for input_filename`), "lines" (at the `for line`), "done"; files, lines:
\* input files and lines gone through; included_set, seen_titles,
\* total_processed, total_unique, included_found: the locals; output: the
\* lines written to the output file; titles: the normalized title of each
\* line processed, in order; last: the last line processed, stripped, and
\* the raw title taken from it; stats: the dictionary returned.
NoStats == [ total_processed |-> -1 ]
NoLine == << "<none>" >>
NoDedup ==
    [ pc |-> "idle", files |-> 0, lines |-> 0, included_set |-> {},
      seen_titles |-> {}, total_processed |-> 0, total_unique |-> 0,
      included_found |-> << >>, output |-> << >>, titles |-> << >>,
      last |-> [ line |-> NoLine, raw_title |-> NoLine ], stats |-> NoStats ]

\* RISParser(): the fields as reset() leaves them, no file parsed.  pc: "idle",
\* "lines" (at the `for line in f`), "done" (parse_file returned); lines: the
\* lines of the file read so far; entries: the list parse_file builds.
NoRis ==
    [ pc |-> "idle", lines |-> << >>, current_title |-> << >>,
      current_abstract |-> << >>, in_title |-> FALSE, in_abstract |-> FALSE,
      entries |-> << >> ]

\* No evaluate_reference call has been made.  pc: "idle", "raw" (at the `for
\* filepath in data_files`), "filtered" (get_raw_articles returned), "counted"
\* (get_filtered_articles returned), "done"; files: data files gone through;
\* metrics: the dictionary calculate_metrics returned.
NoCounts == [ total |-> -1 ]
NoMatrix ==
    [ pc |-> "idle", included_set |-> {}, files |-> 0, all_titles |-> {},
      total_count |-> 0, filtered_articles |-> {}, metrics |-> NoCounts ]

\* No batch call has been made.  pc: "idle", "loop" (at the `for ... in
\* mapping.items()`), "raised", "done"; method: the batch method called;
\* keys: the keys of the mapping, in the order of items(); calls: what the
\* call made for each key gone through did; results: the dictionary built.
NoBatch ==
    [ pc |-> "idle", method |-> "none", keys |-> << >>, calls |-> << >>,
      results |-> << >> ]

\* ScreeningMetrics(), with no summary taken.
NewTally == [ metrics |-> NewMetrics, summary |-> NoSummary ]

\* No operation has been given a prompt.  prompt: the prompt the caller
\* passed to the operation in progress; at: "top" of the loop, or "waiting"
\* inside the provider call; sent: the prompts its provider calls were issued
\* with; inflight: its provider calls issued and not yet back.
NoWire == [ prompt |-> "none", at |-> "top", sent |-> {}, inflight |-> 0 ]

\* A thread that is in no operation.  pc: "idle", "loop" (about to call the
\* provider), "called" (holds the provider's response), "loaded" (inside
\* add_cost, holds the total it read); loaded: that total.
NoThread ==
    [ pc |-> "idle", op |-> "none", cost |-> 0, loaded |-> 0, outcome |-> NoOutcome ]

\* provider.calls: calls the operation made; provider.malformed: those that
\* returned a text without a marker of the operation; provider.last: the last
\* text returned; provider.exc: the exception the last call raised.
NewProvider == [ calls |-> 0, malformed |-> 0, last |-> NoText, exc |-> NoException ]

\* history.billed: sum of the costs of the provider calls that returned;
\* dissents: review calls that returned False; decided: classify / screen
\* calls that returned; calls: provider calls made.
NewHistory ==
    [ billed |-> [ t \in Tiers |-> 0 ],
      dissents |-> [ t \in Tiers |-> 0 ],
      decided |-> [ t \in Tiers |-> 0 ],
      calls |-> 0 ]

\* LLMConfig.pricing in cost units of 0.0005 / 1000 USD: a prompt token
\* costs one unit and a completion token three.
PromptPrice == 1
CompletionPrice == 3

\* LLMConfig.max_retries as the dataclass sets it.
DefaultMaxRetries == 3

\* A pricing entry: key -> price per token.  NoEntry is the `{}` that
\* pricing.get(model_name, {}) yields for a model the table lacks.
NoEntry == [ k \in {} |-> 0 ]
DefaultEntry == [ k \in { "prompt", "completion" } |->
                    IF k = "prompt" THEN PromptPrice ELSE CompletionPrice ]

\* LLMConfig.pricing as the dataclass sets it.
DefaultPricing == [ m \in { "gpt-4o-mini", "o3-mini" } |-> DefaultEntry ]

\* LLMConfig as the dataclass sets it.
DefaultConfig ==
    [ gpt_4o_mini_model |-> "gpt-4o-mini",
      o3_mini_model |-> "gpt-4o-mini",
      max_retries |-> DefaultMaxRetries,
      pricing |-> DefaultPricing ]

NoResult == [ kind |-> "none", text |-> NoText, cost |-> 0, exc |-> NoException ]
NoUsage == [ prompt_tokens |-> 0, completion_tokens |-> 0 ]

\* The client with configuration cfg and no call in progress.  pc: "idle" or
\* "try" (inside _make_api_call's loop); attempt: the loop index; attempts:
\* create() calls made by the current call; sleeps: time.sleep calls made by
\* it; failures: the exceptions of its failed attempts, in order; usage and
\* model: the token usage and the model name of its successful attempt;
\* result: what it handed to its caller.
NewTransport(cfg) ==
    [ config |-> cfg, pc |-> "idle", attempt |-> 0, attempts |-> 0, sleeps |-> 0,
      failures |-> << >>, usage |-> NoUsage, model |-> "none", result |-> NoResult ]

\* TwoTierScreeningAgent.__init__: one classifier, one detailed screener,
\* each with fresh metrics.
Constructed ==
    /\ metrics = [ t \in Tiers |-> NewMetrics ]
    /\ pc = "idle"
    /\ op = "none"
    /\ outcome = NoOutcome
    /\ provider = NewProvider
    /\ history = NewHistory
    /\ summary = NoSummary
    /\ threads = [ th \in Threads |-> NoThread ]
    /\ singletons = NoSingletons
    /\ wire = NoWire
    /\ tally = NewTally
    /\ dedup = NoDedup
    /\ ris = NoRis
    /\ matrix = NoMatrix
    /\ batch = NoBatch

\* The agent as constructed, with the configuration of the dataclasses.
Init ==
    /\ Constructed
    /\ transport = NewTransport(DefaultConfig)

Enter_improve_after_dissent(o) ==
    /\ pc = "idle"
    /\ o \in { "improve_classification", "improve_screening" }
            => history.dissents[TierOf(o)] > 0
    /\ pc' = "loop"
    /\ op' = o
    /\ outcome' = NoOutcome
    /\ provider' = NewProvider
    /\ summary' = NoSummary
    /\ UNCHANGED << metrics, history >>

Enter_review_after_decision(o) ==
    /\ pc = "idle"
    /\ o \in { "review_classification", "review_screening" }
            => history.decided[TierOf(o)] > 0
    /\ pc' = "loop"
    /\ op' = o
    /\ outcome' = NoOutcome
    /\ provider' = NewProvider
    /\ summary' = NoSummary
    /\ UNCHANGED << metrics, history >>

\* The caller invokes operation o: control enters its `while True`.
Enter(o) ==
    /\ pc = "idle"
    /\ pc' = "loop"
    /\ op' = o
    /\ outcome' = NoOutcome
    /\ provider' = NewProvider
    /\ summary' = NoSummary
    /\ UNCHANGED << metrics, history >>

\* Enter, while the behaviour has provider calls left.
Begin(o) ==
    /\ history.calls < MaxCalls
    /\ Enter(o)
    /\ UNCHANGED others

\* on_response tabulated over the provider's texts (evaluated once).
ResponseOf == [ o \in Ops |-> [ text \in Texts |-> on_response(o, text) ] ]

\* One pass of o's loop in which the provider returns (text, cost).
Pass(o, text, cost) ==
    /\ pc = "loop"
    /\ op = o
    /\  LET res == ResponseOf[o][text]
            t == TierOf(o)
        IN  /\ metrics' = [ metrics EXCEPT ![t] = metrics_after_response(o, @, text, cost) ]
            /\ outcome' = res
            /\ pc' = IF res.kind = "none" THEN "loop" ELSE "idle"
            /\ provider' = [ provider EXCEPT
                    !.calls = @ + 1,
                    !.malformed = IF PresentOf[o][text] = {} THEN @ + 1 ELSE @,
                    !.last = text ]
            /\ history' = [ history EXCEPT
                    !.calls = @ + 1,
                    !.billed[t] = @ + cost,
                    !.dissents[t] =
                        IF res.kind = "returned" /\ res.value = "False" THEN @ + 1 ELSE @,
                    !.decided[t] =
                        IF res.kind = "returned" /\ o \in { "classify", "screen" }
                        THEN @ + 1 ELSE @ ]
    /\ UNCHANGED << op, summary >>

\* Pass, for any response of the provider, while the behaviour has calls left.
Respond(o) ==
    /\ history.calls < MaxCalls
    /\ \E text \in Texts, cost \in Costs : Pass(o, text, cost)
    /\ UNCHANGED others

\* One pass of o's loop in which the provider call raises e.
Raise(o, e) ==
    /\ pc = "loop"
    /\ op = o
    /\  LET res == on_exception(o, e)
            t == TierOf(o)
        IN  /\ metrics' = [ metrics EXCEPT ![t] = metrics_after_exception(o, @) ]
            /\ outcome' = res
            /\ pc' = IF res.kind = "none" THEN "loop" ELSE "idle"
            /\ provider' = [ provider EXCEPT !.calls = @ + 1, !.exc = e ]
            /\ history' = [ history EXCEPT !.calls = @ + 1 ]
    /\ UNCHANGED << op, summary >>

\* Raise, for any exception, while the behaviour has calls left.
Fail(o) ==
    /\ history.calls < MaxCalls
    /\ \E e \in Exceptions : Raise(o, e)
    /\ UNCHANGED others

Operation(o) == Begin(o) \/ Respond(o) \/ Fail(o)

classify == Operation("classify")
review_classification == Operation("review_classification")
improve_classification == Operation("improve_classification")
screen == Operation("screen")
review_screening == Operation("review_screening")
improve_screening == Operation("improve_screening")

\* The caller, between two operations, asks the agent for its metrics
\* summary; the summary takes the place of the last operation's result.
GetMetricsSummary ==
    /\ pc = "idle"
    /\ summary' = get_metrics_summary(metrics)
    /\ outcome' = NoOutcome
    /\ provider' = NewProvider
    /\ UNCHANGED << metrics, pc, op, history >>
    /\ UNCHANGED others

Next ==
    \/ classify
    \/ review_classification
    \/ improve_classification
    \/ screen
    \/ review_screening
    \/ improve_screening
    \/ GetMetricsSummary

Spec == Init /\ [][Next]_vars

TypeOK ==
    /\ pc \in { "idle", "loop" }
    /\ op \in Ops \cup { "none" }
    /\ outcome.kind \in { "none", "returned", "raised" }
    /\ \A t \in Tiers : metrics[t].total_cost \in 0 .. MaxCalls
    /\ provider.calls \in 0 .. MaxCalls
    /\ history.calls \in 0 .. MaxCalls

\* ------------------------------------------------------------ properties

\* The operation in progress has received a response and no exception.
Answered == provider.last # NoText /\ provider.exc = NoException

\* The markers of the current operation's table in the last response.
Present == IF provider.last = NoText THEN {} ELSE PresentOf[op][provider.last]

Returned == outcome.kind = "returned"

Noise == << "X", "o" >>

\* C1: a response that holds exactly one marker of the operation's table, in
\* any letter case and with any text around it, makes the operation return
\* the outcome the table maps that marker to.
C1_OneMarkerDecides ==
    (Answered /\ Cardinality(Present) = 1) =>
        /\ Returned
        /\ pc = "idle"
        /\ \A m \in Present : outcome.value = Mapped(op, m)

\* A review that returned False on a mixed-case YYY that follows other text.
C1_Witness ==
    /\ op = "review_screening"
    /\ Returned
    /\ outcome.text = Noise \o << "y", "Y", "y" >>
    /\ outcome.value = "False"

\* C2: with more than one classifier marker in the response, classify and
\* improve_classification return the outcome of the first marker present in
\* the order XXX, YYY, ZZZ, wherever the markers stand in the text.
C2_ClassifierPriority ==
    (op \in { "classify", "improve_classification" } /\ Answered /\ Cardinality(Present) > 1) =>
        /\ Returned
        /\ outcome.value =
              IF "XXX" \in Present THEN "potentially relevant" ELSE "uncertain"

\* classify returned "potentially relevant" on a text whose XXX comes last.
C2_Witness ==
    /\ op = "classify"
    /\ Returned
    /\ outcome.text = << "y", "Y", "y" >> \o << "x", "x", "X" >>
    /\ outcome.value = "potentially relevant"

\* Every text that holds both XXX and YYY is decided "included" by screen and
\* "excluded" by improve_screening.
BothMarkersOpposed ==
    \A text \in Texts :
        PresentOf["screen"][text] = { "XXX", "YYY" } =>
            /\ ResponseOf["screen"][text].value = "included"
            /\ ResponseOf["improve_screening"][text].value = "excluded"

\* C3: on a response that holds both XXX and YYY, screen returns "included"
\* and improve_screening returns "excluded": the two operations decide the
\* same text in opposite ways.
C3_DetailedAsymmetry ==
    /\ (op = "screen" /\ Answered /\ Present = { "XXX", "YYY" }) =>
            (Returned /\ outcome.value = "included")
    /\ (op = "improve_screening" /\ Answered /\ Present = { "XXX", "YYY" }) =>
            (Returned /\ outcome.value = "excluded")
    /\ BothMarkersOpposed

\* improve_screening returned "excluded" on a text in which YYY comes first.
C3_Witness ==
    /\ op = "improve_screening"
    /\ Returned
    /\ outcome.text = << "y", "Y", "y" >> \o << "x", "x", "X" >>
    /\ outcome.value = "excluded"
    /\ ResponseOf["screen"][outcome.text].value = "included"

\* C4: a response without a marker of the operation's table does not end the
\* operation; the next thing the operation does is another provider call; and
\* it returns only on a response that holds a marker.
C4_MalformedRetries ==
    /\ [](Returned => (Answered /\ Present # {}))
    /\ [][ ( /\ provider'.calls = provider.calls + 1
             /\ provider'.exc = NoException
             /\ PresentOf[op'][provider'.last] = {} )
           => (pc' = "loop" /\ outcome'.kind = "none") ]_vars
    /\ [][ pc = "loop" => (provider'.calls = provider.calls + 1 /\ op' = op) ]_vars

\* review_screening returned on its second provider call, after a response
\* that held no marker of the review table.
C4_Witness ==
    /\ op = "review_screening"
    /\ Returned
    /\ provider.malformed = 1
    /\ provider.calls = 2

\* C5: what an operation returns is the provider's last response of that call,
\* which holds a marker, and the outcome the table gives for that very text;
\* no default stands in for a malformed response.
C5_NoDefaultDecision ==
    Returned =>
        /\ outcome.text = provider.last
        /\ outcome.text \in Texts
        /\ PresentOf[op][outcome.text] # {}
        /\ outcome.value = FirstOf(op, PresentOf[op][outcome.text])

\* improve_screening returned after a malformed response had been retried.
C5_Witness ==
    /\ op = "improve_screening"
    /\ Returned
    /\ provider.malformed >= 1
    /\ outcome.value = "included"

\* C6: as long as the provider has not raised, an operation has made one call
\* per malformed response, plus the one whose response it returned: k
\* malformed responses and a well-formed one are k + 1 calls, and the
\* outcome is that of the last response.
C6_CallsPerMalformed ==
    provider.exc = NoException =>
        /\ provider.calls = provider.malformed + (IF Returned THEN 1 ELSE 0)
        /\ (pc = "loop" <=> (~Returned /\ op # "none" /\ summary = NoSummary))
        /\ Returned => outcome.value = FirstOf(op, Present)

\* classify: a response without a marker, then one with XXX.
C6_Witness ==
    /\ op = "classify"
    /\ Returned
    /\ provider.malformed = 1
    /\ provider.calls = 2
    /\ "XXX" \in Present
    /\ outcome.value = "potentially relevant"

\* C7: a tier's total_cost is the sum of the costs of all provider calls that
\* returned for that tier, those with a malformed response included.
C7_CostIsSumOfCalls ==
    \A t \in Tiers : metrics[t].total_cost = history.billed[t]

\* The classifier tier was billed by two operations, one of them retried.
C7_Witness ==
    /\ op = "review_classification"
    /\ provider.malformed >= 1
    /\ Returned
    /\ history.decided["classifier"] = 1
    /\ metrics["classifier"].total_cost = 3

\* C8: a tier's disagreement counter counts the review calls that returned
\* Agreement = False.
C8_DisagreementsCountDissents ==
    \A t \in Tiers : metrics[t].total_disagreements = history.dissents[t]

\* C9: a tier's total_processed counts the classify (screen) calls that
\* returned a decision.
C9_ProcessedCountsDecided ==
    \A t \in Tiers : metrics[t].total_processed = history.decided[t]

\* C10: once the provider has raised, the operation is over: it has raised
\* that same exception, yields no decision or agreement, and makes no
\* further provider call.
C10_ProviderFailurePropagates ==
    /\ [](provider.exc # NoException =>
            /\ pc = "idle"
            /\ outcome.kind = "raised"
            /\ outcome.exc = provider.exc
            /\ outcome.value = NoValue)
    /\ [][ provider.exc # NoException => provider'.calls # provider.calls + 1 ]_vars

\* screen raised the provider's exception after a malformed response.
C10_Witness ==
    /\ op = "screen"
    /\ provider.malformed = 1
    /\ provider.exc = "RateLimitError"
    /\ outcome.kind = "raised"
    /\ outcome.exc = "RateLimitError"

\* The tier each operation belongs to, by the class that defines it.
OwnTier(o) ==
    IF o \in { "classify", "review_classification", "improve_classification" }
    THEN "classifier"
    ELSE "detailed_screener"

\* What a summary reports of one tier's metrics.
ReportsTier(s, m) ==
    /\ s.total_cost = m.total_cost
    /\ s.total_disagreements = m.total_disagreements
    /\ s.total_processed = m.total_processed

\* What a combined summary reports of the two tiers' metrics.
ReportsBoth(s) ==
    /\ s.total_cost =
          metrics["classifier"].total_cost + metrics["detailed_screener"].total_cost
    /\ s.total_disagreements =
          metrics["classifier"].total_disagreements
              + metrics["detailed_screener"].total_disagreements
    /\ ReportsTier(s.classifier, metrics["classifier"])
    /\ ReportsTier(s.detailed_screener, metrics["detailed_screener"])

\* C11: at every point, get_metrics_summary returns the sum of the two tiers'
\* total_cost, the sum of their disagreement counters, and each tier's own
\* figures under 'classifier' and 'detailed_screener'.
C11_SummaryAddsTiers ==
    /\ ReportsBoth(get_metrics_summary(metrics))
    /\ summary # NoSummary => ReportsBoth(summary)

\* A summary was returned after both tiers had been billed.
C11_Witness ==
    /\ summary # NoSummary
    /\ summary.total_cost = 3
    /\ summary.classifier.total_cost = 1
    /\ summary.detailed_screener.total_cost = 2

\* C12: a step changes a tier's metrics only inside an operation of that
\* tier, and a step that returns a summary (get_metrics_summary, which calls
\* get_summary on both tiers) changes no tier's metrics.
C12_TierOwnsItsMetrics ==
    [][ /\ \A t \in Tiers :
              metrics'[t] # metrics[t] => (pc = "loop" /\ op \in Ops /\ OwnTier(op) = t)
        /\ (summary' # NoSummary /\ summary' # summary) => metrics' = metrics
      ]_vars

\* A detailed-tier operation has been billed while the classifier tier's
\* metrics are as constructed, and a summary has been returned since.
C12_Witness ==
    /\ summary # NoSummary
    /\ op \in DetailedOps
    /\ metrics["detailed_screener"].total_cost = 2
    /\ metrics["classifier"] = NewMetrics

\* C13: no step lowers a tier's total_cost, total_disagreements or
\* total_processed, an operation that ends in a provider failure included.
C13_MetricsNeverDecrease ==
    [][ \A t \in Tiers :
            /\ metrics'[t].total_cost >= metrics[t].total_cost
            /\ metrics'[t].total_disagreements >= metrics[t].total_disagreements
            /\ metrics'[t].total_processed >= metrics[t].total_processed
      ]_vars

\* An operation was billed for a malformed response and then ended in a
\* provider failure; its tier keeps what was billed.
C13_Witness ==
    /\ outcome.kind = "raised"
    /\ provider.malformed = 2
    /\ op \in Ops
    /\ metrics[OwnTier(op)].total_cost = 2

ReviewOps == { "review_classification", "review_screening" }
ImproveOps == { "improve_classification", "improve_screening" }

\* The caller is between two operations and the behaviour has calls left.
CallerFree == pc = "idle" /\ history.calls < MaxCalls

\* C14 as stated: an improve is in progress or over only on a tier on which a
\* review has returned Agreement = False (which a dissenting review of the
\* same article would be).
C14_ImproveOnlyAfterDissent ==
    op \in ImproveOps => history.dissents[OwnTier(op)] >= 1

\* C14 amended: the tiers put no precondition on improve.  Whenever the
\* caller is between operations, both improve operations can be invoked,
\* whatever reviews came before; and an improve invoked with no dissenting
\* review behind it runs like any other: it returns its table's decision.
C14_ImproveHasNoPrecondition ==
    /\ CallerFree =>
          /\ ENABLED Begin("improve_classification")
          /\ ENABLED Begin("improve_screening")
    /\ (op \in ImproveOps /\ Returned /\ history.dissents[OwnTier(op)] = 0) =>
          outcome.value = FirstOf(op, Present)

\* improve_classification returned a decision on a classifier tier that no
\* review has ever dissented on.
C14_Witness ==
    /\ op = "improve_classification"
    /\ Returned
    /\ outcome.value = "uncertain"
    /\ history.dissents["classifier"] = 0
    /\ history.decided["classifier"] = 0

\* C15 as stated: the per-tier state machine is followed, so a review is in
\* progress or over only on a tier on which a classify (screen) has returned
\* a decision to review.
C15_StateMachineFollowed ==
    op \in ReviewOps => history.decided[OwnTier(op)] >= 1

\* C15 amended: inside an operation nothing happens but provider calls of
\* that operation, so no tier operation starts a review or an improve by
\* itself and every operation is begun by the caller; the tiers do not hold
\* the caller to the state machine: between operations both reviews can be
\* invoked, whatever was decided, reviewed or improved before.
C15_OnlyCallerSequences ==
    /\ [][ /\ pc = "loop" => op' = op
           /\ op' # op => (pc = "idle" /\ pc' = "loop" /\ provider'.calls = 0)
         ]_vars
    /\ [](CallerFree =>
            /\ ENABLED Begin("review_classification")
            /\ ENABLED Begin("review_screening"))

\* review_screening dissented although screen had decided nothing; two paid
\* calls were made on the tier, and no operation followed by itself.
C15_Witness ==
    /\ op = "review_screening"
    /\ Returned
    /\ outcome.value = "False"
    /\ pc = "idle"
    /\ history.decided["detailed_screener"] = 0
    /\ metrics["detailed_screener"].total_cost = 2

\* ------------------------------------- several caller threads on one agent

\* The caller runs the operations of one agent from several threads.  Each
\* thread executes an operation's loop statement by statement: the provider
\* call, then add_cost's `self.total_cost += cost`, which reads the
\* attribute, adds, and writes the attribute back, with nothing that keeps
\* another thread out in between.

\* The response texts the provider returns to the threads: at most one piece.
ShortTexts == TextsOf(1)

\* Thread th invokes operation o.
ThreadBegin(th, o) ==
    /\ threads[th].pc = "idle"
    /\ history.calls < MaxCalls
    /\ threads' = [ threads EXCEPT ![th] = [ NoThread EXCEPT !.pc = "loop", !.op = o ] ]
    /\ UNCHANGED << agent, outsideThreads >>

\* `response, cost = gpt_4o_mini(prompt)` returns to thread th.
ThreadCall(th) ==
    /\ threads[th].pc = "loop"
    /\ history.calls < MaxCalls
    /\ \E text \in ShortTexts, cost \in Costs :
        LET o == threads[th].op
        IN  /\ threads' = [ threads EXCEPT ![th] =
                    [ @ EXCEPT !.pc = "called", !.cost = cost,
                               !.outcome = ResponseOf[o][text] ] ]
            /\ history' = [ history EXCEPT
                    !.calls = @ + 1,
                    !.billed[TierOf(o)] = @ + cost ]
    /\ UNCHANGED << metrics, pc, op, outcome, provider, summary, outsideThreads >>

\* The provider call of thread th raises: the operation ends with it.
ThreadRaise(th) ==
    /\ threads[th].pc = "loop"
    /\ history.calls < MaxCalls
    /\ \E e \in Exceptions :
        threads' = [ threads EXCEPT ![th] =
            [ @ EXCEPT !.pc = "idle", !.outcome = on_exception(threads[th].op, e) ] ]
    /\ history' = [ history EXCEPT !.calls = @ + 1 ]
    /\ UNCHANGED << metrics, pc, op, outcome, provider, summary, outsideThreads >>

\* add_cost in thread th reads self.total_cost.
ThreadLoad(th) ==
    /\ threads[th].pc = "called"
    /\ threads' = [ threads EXCEPT ![th] =
            [ @ EXCEPT !.pc = "loaded",
                       !.loaded = metrics[TierOf(threads[th].op)].total_cost ] ]
    /\ UNCHANGED << agent, outsideThreads >>

\* add_cost in thread th writes self.total_cost: the total it read plus the
\* cost.  The markers are then searched, and the operation returns or loops.
ThreadStore(th) ==
    /\ threads[th].pc = "loaded"
    /\  LET t == TierOf(threads[th].op)
            read == [ metrics[t] EXCEPT !.total_cost = threads[th].loaded ]
        IN  metrics' = [ metrics EXCEPT ![t] = add_cost(read, threads[th].cost) ]
    /\ threads' = [ threads EXCEPT ![th] =
            [ @ EXCEPT !.pc = IF threads[th].outcome.kind = "none" THEN "loop" ELSE "idle",
                       !.cost = 0, !.loaded = 0 ] ]
    /\ UNCHANGED << pc, op, outcome, provider, history, summary, outsideThreads >>

NextConcurrent ==
    \E th \in Threads :
        \/ \E o \in Ops : ThreadBegin(th, o)
        \/ ThreadCall(th)
        \/ ThreadRaise(th)
        \/ ThreadLoad(th)
        \/ ThreadStore(th)

SpecConcurrent == Init /\ [][NextConcurrent]_vars

\* No thread is between receiving a response and the end of its add_cost.
Quiescent == \A th \in Threads : threads[th].pc \in { "idle", "loop" }

\* C16: whatever the interleaving of the threads, no cost update is lost:
\* once every started update is over, each tier's total_cost is the sum of
\* the costs of all the calls that returned on that tier.
C16_NoLostUpdate ==
    Quiescent => \A t \in Tiers : metrics[t].total_cost = history.billed[t]

\* ------------------------------------------------- the malformed-output loop

\* The operation in progress stopped with the error of an exhausted ceiling.
Unparseable ==
    /\ pc = "idle"
    /\ outcome.kind = "raised"
    /\ outcome.exc = "UnparseableOutput"

\* C17: the loop of an operation has a maximum-attempt ceiling that can be
\* set: for some ceiling n, an operation that has received n malformed
\* responses in a row has stopped calling the provider and has failed with
\* the 'unparseable output' error.
C17_CeilingStopsTheLoop ==
    \E n \in 1 .. MaxCalls :
        (op \in Ops /\ provider.calls = provider.malformed /\ provider.malformed >= n)
            => Unparseable

\* The provider answers operation o with a text that has none of o's markers.
Retry(o) ==
    /\ history.calls < MaxCalls
    /\ \E text \in ShortTexts, cost \in Costs :
        /\ PresentOf[o][text] = {}
        /\ Pass(o, text, cost)
    /\ UNCHANGED others

\* The provider answers operation o with a text that has a marker of o, or
\* its call raises.  Such an answer is never withheld for want of calls.
Settle(o) ==
    /\ history.calls < MaxCalls + 1
    /\ \/ \E text \in ShortTexts, cost \in Costs :
            /\ PresentOf[o][text] # {}
            /\ Pass(o, text, cost)
       \/ \E e \in Exceptions : Raise(o, e)
    /\ UNCHANGED others

NextLive == \E o \in Ops : Begin(o) \/ Retry(o) \/ Settle(o)

\* The provider of these behaviours does not answer with malformed texts
\* for ever: the loop calls it again at once, and in the end it answers with
\* a marker or raises.
ProviderSettles == \E o \in Ops : Settle(o)

SpecLive == Init /\ [][NextLive]_vars /\ WF_vars(ProviderSettles)

\* Every answer to the operation in progress has been malformed so far.
OnlyMalformed ==
    /\ op \in Ops
    /\ provider.calls = provider.malformed
    /\ provider.exc = NoException

\* C18: with a provider that in the end answers with a marker or raises,
\* every operation that is in its loop leaves it, with a return or a raise;
\* and as long as every answer has been malformed the operation is in its
\* loop and has returned nothing.
C18_TerminatesUnlessOnlyMalformed ==
    /\ (pc = "loop") ~> (pc = "idle" /\ outcome.kind \in { "returned", "raised" })
    /\ [](OnlyMalformed => (pc = "loop" /\ outcome.kind = "none"))

\* An operation returned on its third answer, after two malformed ones.
C18_Witness ==
    /\ pc = "idle"
    /\ Returned
    /\ provider.calls = 3
    /\ provider.malformed = 2

\* ------------------------------------------------------ the provider client

\* The configurations a caller may have set before it uses the agent: the
\* dataclass values, fewer retries (also none, and a negative number), and
\* model names the pricing table does not list.
ModelNames == { "gpt-4o-mini", "gpt-4.1" }
MaxRetriesValues == -1 .. DefaultMaxRetries
PricingTables == { DefaultPricing }
Configs ==
    [ gpt_4o_mini_model : ModelNames,
      o3_mini_model : ModelNames,
      max_retries : MaxRetriesValues,
      pricing : PricingTables ]

\* The token usage the API reports with a response.
Usages ==
    { [ prompt_tokens |-> 1, completion_tokens |-> c ] : c \in { 0, 1 } }

\* dict.get(key, default) on a mapping.
Get(d, key, default) == IF key \in DOMAIN d THEN d[key] ELSE default

calculate_cost_default_price(cfg, usage, model_name) ==
    LET pricing == Get(cfg.pricing, model_name, DefaultEntry)
    IN  usage.prompt_tokens * Get(pricing, "prompt", PromptPrice)
        + usage.completion_tokens * Get(pricing, "completion", CompletionPrice)

\* LLMClient._calculate_cost
calculate_cost(cfg, usage, model_name) ==
    LET pricing == Get(cfg.pricing, model_name, NoEntry)
    IN  IF DOMAIN pricing = {} THEN 0
        ELSE usage.prompt_tokens * Get(pricing, "prompt", 0)
             + usage.completion_tokens * Get(pricing, "completion", 0)

\* gpt_4o_mini / gpt_o3_mini: the model name operation o's call is made with.
ModelOf(cfg, o) ==
    IF o \in { "review_classification", "review_screening" }
    THEN cfg.o3_mini_model
    ELSE cfg.gpt_4o_mini_model

after_failure_raise_at_once(attempt, max_retries) == "raise"

after_failure_sleep_always(attempt, max_retries) == "sleep"

\* _make_api_call's except clause: sleep and go on, or re-raise.
after_failure(attempt, max_retries) ==
    IF attempt < max_retries - 1 THEN "sleep" ELSE "raise"

\* Operation o, in its loop, calls gpt_4o_mini / gpt_o3_mini: _make_api_call
\* enters its `for attempt in range(max_retries)`.  When the range is empty,
\* and when the `for` ends after a sleep, the call falls off its end and
\* returns None: the operation's `response, cost = ...` cannot unpack it, and
\* the TypeError leaves the operation through its `except Exception: raise`.
StartCall(o) ==
    /\ pc = "loop"
    /\ op = o
    /\ transport.pc = "idle"
    /\ history.calls < MaxCalls
    /\  LET fresh == NewTransport(transport.config)
        IN  IF transport.config.max_retries <= 0
            THEN /\ Raise(o, "TypeError")
                 /\ transport' = [ fresh EXCEPT !.result = [ NoResult EXCEPT !.kind = "None" ] ]
            ELSE /\ transport' = [ fresh EXCEPT !.pc = "try" ]
                 /\ UNCHANGED agent
    /\ UNCHANGED outsideTransport

\* create() returns: the content and the cost are returned to operation o,
\* which goes through the rest of its pass.
AttemptReturns(o) ==
    /\ transport.pc = "try"
    /\ op = o
    /\ \E text \in ShortTexts, usage \in Usages :
        LET model == ModelOf(transport.config, o)
            cost == calculate_cost(transport.config, usage, model)
        IN  /\ Pass(o, text, cost)
            /\ transport' = [ transport EXCEPT
                    !.pc = "idle",
                    !.attempts = @ + 1,
                    !.usage = usage,
                    !.model = model,
                    !.result = [ kind |-> "pair", text |-> text, cost |-> cost,
                                 exc |-> NoException ] ]
    /\ UNCHANGED outsideTransport

\* create() raises e: the call sleeps and tries again, or re-raises e to
\* operation o, which re-raises it to its caller.
AttemptRaises(o) ==
    /\ transport.pc = "try"
    /\ op = o
    /\ \E e \in Exceptions :
        LET cfg == transport.config
            failed == [ transport EXCEPT !.attempts = @ + 1,
                                         !.failures = Append(@, e) ]
        IN  IF after_failure(transport.attempt, cfg.max_retries) = "sleep"
            THEN IF transport.attempt + 1 < cfg.max_retries
                 THEN /\ transport' = [ failed EXCEPT !.sleeps = @ + 1,
                                                      !.attempt = @ + 1 ]
                      /\ UNCHANGED agent
                 ELSE /\ Raise(o, "TypeError")
                      /\ transport' = [ failed EXCEPT
                            !.sleeps = @ + 1,
                            !.pc = "idle",
                            !.result = [ NoResult EXCEPT !.kind = "None" ] ]
            ELSE /\ Raise(o, e)
                 /\ transport' = [ failed EXCEPT
                        !.pc = "idle",
                        !.result = [ NoResult EXCEPT !.kind = "raised", !.exc = e ] ]
    /\ UNCHANGED outsideTransport

NextTransport ==
    \E o \in Ops : Begin(o) \/ StartCall(o) \/ AttemptReturns(o) \/ AttemptRaises(o)

\* The agent as constructed, with any of the configurations.
InitTransport ==
    /\ Constructed
    /\ \E cfg \in Configs : transport = NewTransport(cfg)

SpecTransport == InitTransport /\ [][NextTransport]_vars

\* C19: a transport call with max_retries = n >= 1 makes at most n attempts.
\* While it tries, fewer than n attempts have failed; a call that returned a
\* pair returned, to the operation that made it, the text of its one
\* successful attempt, which was its last, every attempt before it having
\* failed; a call that raised made exactly n
\* attempts, all failed, and raised the exception of the n-th; and the call
\* ends in no other way.
C19_AtMostNAttempts ==
    LET n == transport.config.max_retries
        failed == Len(transport.failures)
        result == transport.result
    IN  n >= 1 =>
            /\ transport.attempts <= n
            /\ transport.pc = "try" =>
                    (transport.attempts = failed /\ failed < n /\ result.kind = "none")
            /\ result.kind = "pair" =>
                    /\ transport.pc = "idle"
                    /\ transport.attempts = failed + 1
                    /\ provider.calls > 0 => provider.last = result.text
            /\ result.kind = "raised" =>
                    /\ transport.pc = "idle"
                    /\ transport.attempts = n
                    /\ failed = n
                    /\ result.exc = transport.failures[n]
            /\ result.kind \in { "none", "pair", "raised" }

\* With max_retries = 3 the call failed three times and raised the third
\* exception, which differs from the first two.
C19_Witness ==
    /\ transport.config.max_retries = 3
    /\ transport.attempts = 3
    /\ transport.failures = << "APITimeoutError", "APITimeoutError", "RateLimitError" >>
    /\ transport.result.kind = "raised"
    /\ transport.result.exc = "RateLimitError"
    /\ outcome.exc = "RateLimitError"

\* create() has just returned to a call made with a model name the pricing
\* table has no entry for.
UnpricedReturn ==
    /\ transport.pc = "try"
    /\ transport'.pc = "idle"
    /\ transport'.result.kind = "pair"
    /\ transport'.model \notin DOMAIN transport.config.pricing

\* C20: a call made with a model name the pricing table has no entry for
\* costs 0 and raises nothing: it returns its response text to the
\* operation, and the tier's total_cost, like all the metrics, is what it
\* was before the call.
C20_UnpricedCallCostsNothing ==
    [][ UnpricedReturn =>
            /\ transport'.result.cost = 0
            /\ transport'.result.text \in ShortTexts
            /\ provider'.last = transport'.result.text
            /\ provider'.exc = NoException
            /\ outcome'.kind # "raised"
            /\ metrics'[OwnTier(op)].total_cost = metrics[OwnTier(op)].total_cost
            /\ metrics' = metrics
      ]_vars

\* classify was answered through the unlisted model, with tokens used, after
\* a review through a listed model had cost the classifier tier four units.
C20_Witness ==
    /\ op = "classify"
    /\ Returned
    /\ transport.model = "gpt-4.1"
    /\ transport.model \notin DOMAIN transport.config.pricing
    /\ transport.usage.completion_tokens = 1
    /\ transport.result.kind = "pair"
    /\ transport.result.cost = 0
    /\ metrics["classifier"].total_cost = 4

\* ------------------------------------------------------- agreeing reviews

\* C21: a review that returns Agreement = True leaves the disagreement
\* counter of its tier as it was; and when a review has agreed on a tier on
\* which no review has dissented, as after classify ('... ZZZ ...') and an
\* agreeing review ('XXX concur') with no improve, the counter is 0.
C21_AgreementLeavesCounter ==
    /\ [][ (op \in ReviewOps /\ pc = "loop"
            /\ outcome'.kind = "returned" /\ outcome'.value = "True") =>
                metrics'[OwnTier(op)].total_disagreements
                    = metrics[OwnTier(op)].total_disagreements
         ]_vars
    /\ []((op \in ReviewOps /\ Returned /\ outcome.value = "True"
            /\ history.dissents[OwnTier(op)] = 0) =>
                metrics[OwnTier(op)].total_disagreements = 0)

\* review_classification agreed on 'xxX' followed by other text, after one
\* classify had returned and with no dissent and no further call.
C21_Witness ==
    /\ op = "review_classification"
    /\ Returned
    /\ outcome.value = "True"
    /\ provider.last = << "x", "x", "X" >> \o Noise
    /\ history.decided["classifier"] = 1
    /\ history.dissents["classifier"] = 0
    /\ history.calls = 2
    /\ metrics["classifier"].total_disagreements = 0

\* -------------------------------------- the configuration and the client

\* AppConfig objects a behaviour may construct.
MaxConfigs == 3

\* get_config(): the globals after the call; the AppConfig returned is the
\* one .config then refers to.  key: whether an AppConfig constructed by the
\* call finds OPENAI_API_KEY in the environment.
get_config(s, key) ==
    IF s.config = 0
    THEN [ s EXCEPT !.config = Len(s.keys) + 1, !.keys = Append(@, key) ]
    ELSE s

\* load_config_from_env(): _config = AppConfig()
load_config_from_env(s, key) ==
    [ s EXCEPT !.config = Len(s.keys) + 1, !.keys = Append(@, key) ]

\* validate_api_key(), called on globals whose _config is set.
validate_api_key(s) == s.keys[s.config]

\* get_llm_client(): returns _client, after LLMClient() when it is None;
\* LLMClient.__init__ keeps get_config() and raises ValueError without a key,
\* which leaves _client None.
get_llm_client(s, key) ==
    IF s.client # 0
    THEN [ s EXCEPT !.returned = @ \cup { s.client }, !.last = "client" ]
    ELSE LET held == get_config(s, key)
         IN  IF validate_api_key(held)
             THEN [ held EXCEPT
                        !.client = held.clients + 1,
                        !.clients = @ + 1,
                        !.client_config = held.config,
                        !.returned = @ \cup { held.clients + 1 },
                        !.last = "client" ]
             ELSE [ held EXCEPT !.last = "ValueError" ]

\* TwoTierScreeningAgent(): self.config = get_config()
new_agent(s, key) ==
    LET held == get_config(s, key)
    IN  [ held EXCEPT !.agents = @ \cup { held.config }, !.last = "agent" ]

\* A call that may construct an AppConfig has one left to construct.
MayConstruct == singletons.config # 0 \/ Len(singletons.keys) < MaxConfigs

GetConfig ==
    /\ MayConstruct
    /\ \E key \in BOOLEAN :
        singletons' = [ get_config(singletons, key) EXCEPT !.last = "config" ]
    /\ UNCHANGED << agent, outsideConfig >>

LoadConfigFromEnv ==
    /\ Len(singletons.keys) < MaxConfigs
    /\ \E key \in BOOLEAN :
        singletons' = [ load_config_from_env(singletons, key) EXCEPT !.last = "config" ]
    /\ UNCHANGED << agent, outsideConfig >>

GetLlmClient ==
    /\ MayConstruct
    /\ \E key \in BOOLEAN : singletons' = get_llm_client(singletons, key)
    /\ UNCHANGED << agent, outsideConfig >>

NewAgent ==
    /\ MayConstruct
    /\ \E key \in BOOLEAN : singletons' = new_agent(singletons, key)
    /\ UNCHANGED << agent, outsideConfig >>

NextConfig == GetConfig \/ LoadConfigFromEnv \/ GetLlmClient \/ NewAgent

\* The modules as imported: _config and _client are None.
SpecConfig == Init /\ [][NextConfig]_vars

\* C22: there is a single shared configuration and a single client: all
\* get_llm_client calls have returned the same client, and the
\* configuration held by the client and by every orchestrator is the
\* instance get_config now returns.
C22_SingleSharedInstances ==
    /\ Cardinality(singletons.returned) <= 1
    /\ singletons.client # 0 => singletons.client_config = singletons.config
    /\ \A held \in singletons.agents : held = singletons.config

\* The markers XXX, YYY, ZZZ that occur in the last response, whatever the
\* operation's own table.
Occurring == IF provider.last = NoText THEN {} ELSE PresentOf["classify"][provider.last]

\* C23: a review answered with a response that holds both XXX and YYY, in
\* either order, has returned Agreement = True; a review answered with a
\* response that holds ZZZ and neither XXX nor YYY has returned nothing and
\* is in its loop, about to call the provider again.
C23_ReviewPrefersAgreement ==
    (op \in ReviewOps /\ Answered) =>
        /\ { "XXX", "YYY" } \subseteq Occurring =>
                (Returned /\ outcome.value = "True" /\ pc = "idle")
        /\ Occurring = { "ZZZ" } =>
                (pc = "loop" /\ outcome.kind = "none" /\ provider.malformed >= 1)

\* review_screening agreed on a response with YYY before XXX, its second,
\* the first having been malformed.
C23_Witness ==
    /\ op = "review_screening"
    /\ provider.last = << "y", "Y", "y", "x", "x", "X" >>
    /\ provider.malformed = 1
    /\ provider.calls = 2
    /\ Returned
    /\ outcome.value = "True"

\* ------------------------------------------------ prompts and provider calls

\* The prompts a caller may pass to an operation.
Prompts == { "prompt of article 1", "prompt of article 2" }

prompt_for_call_marks_retries(prompt, calls) ==
    IF calls = 0 THEN prompt ELSE "retry"

\* The argument of gpt_4o_mini / gpt_o3_mini in the loop body: the
\* operation's parameter, whatever the number of calls made before.
prompt_for_call(prompt, calls) == prompt

\* The caller invokes operation o with prompt p.
Invoke(o, p) ==
    /\ history.calls < MaxCalls
    /\ Enter(o)
    /\ wire' = [ NoWire EXCEPT !.prompt = p ]
    /\ UNCHANGED outsideWire

\* Operation o, at the top of its loop, calls the provider and waits.
Issue(o) ==
    /\ pc = "loop"
    /\ op = o
    /\ wire.at = "top"
    /\ history.calls < MaxCalls
    /\ wire' = [ wire EXCEPT
            !.at = "waiting",
            !.sent = @ \cup { prompt_for_call(wire.prompt, provider.calls) },
            !.inflight = @ + 1 ]
    /\ UNCHANGED << agent, outsideWire >>

\* The provider call operation o waits for returns a response, and o goes
\* through the rest of its pass; or the call raises, and so does o.
Answer(o) ==
    /\ wire.at = "waiting"
    /\ op = o
    /\ \/ \E text \in ShortTexts, cost \in Costs : Pass(o, text, cost)
       \/ \E e \in Exceptions : Raise(o, e)
    /\ wire' = [ wire EXCEPT !.at = "top", !.inflight = @ - 1 ]
    /\ UNCHANGED outsideWire

NextPrompts ==
    \E o \in Ops : (\E p \in Prompts : Invoke(o, p)) \/ Issue(o) \/ Answer(o)

SpecPrompts == Init /\ [][NextPrompts]_vars

\* C24: every provider call of an operation, retries included, is issued
\* with the prompt the caller passed in; the calls come one after another:
\* at most one is out at any time, a call is issued only when none is out,
\* and the calls issued are the calls answered plus the one that is out.
C24_SamePromptOneAtATime ==
    /\ [](/\ wire.sent \subseteq { wire.prompt }
          /\ wire.inflight \in { 0, 1 }
          /\ wire.inflight = 1 <=> wire.at = "waiting"
          /\ provider.calls > 0 => wire.sent = { wire.prompt })
    /\ [][ wire'.inflight > wire.inflight =>
                (wire.inflight = 0 /\ provider' = provider) ]_vars

\* An operation issued its third call, after two malformed responses, with
\* the prompt it was given.
C24_Witness ==
    /\ pc = "loop"
    /\ wire.at = "waiting"
    /\ wire.prompt = "prompt of article 2"
    /\ wire.sent = { "prompt of article 2" }
    /\ provider.malformed = 2
    /\ provider.calls = 2

\* C25: a transport call sleeps only between a failed attempt and the next
\* attempt.  While it tries, and when it has returned a pair, it has slept
\* once for each of its f failed attempts; when it has ended on its last
\* failed attempt it has slept f - 1 times: not after that attempt.
C25_SleepsBetweenFailedAttempts ==
    LET f == Len(transport.failures)
        result == transport.result
    IN  /\ transport.pc = "try" => transport.sleeps = f
        /\ result.kind = "pair" => transport.sleeps = f
        /\ (transport.pc = "idle" /\ result.kind \notin { "none", "pair" } /\ f >= 1) =>
                transport.sleeps = f - 1
        /\ f = 0 => transport.sleeps = 0

\* A call succeeded on its third attempt and slept twice.
C25_Witness ==
    /\ transport.result.kind = "pair"
    /\ Len(transport.failures) = 2
    /\ transport.attempts = 3
    /\ transport.sleeps = 2

\* ------------------------------------------------- failures and the metrics

\* C26: the pass in which the provider raises adds no cost and changes no
\* counter; the costs of the malformed responses before it stay added, so
\* that after the raise the tier's total_cost is still the sum of the costs
\* of all responses returned; and no pass of an operation, of one that goes
\* on to fail included, changes the disagreement or the processed counter.
C26_FailureKeepsPaidCosts ==
    /\ [][ (pc = "loop" /\ outcome'.kind = "raised") =>
                /\ metrics' = metrics
                /\ history'.billed = history.billed
         ]_vars
    /\ [][ pc = "loop" =>
                \A t \in Tiers :
                    /\ metrics'[t].total_disagreements = metrics[t].total_disagreements
                    /\ metrics'[t].total_processed = metrics[t].total_processed
         ]_vars
    /\ [](outcome.kind = "raised" =>
                \A t \in Tiers : metrics[t].total_cost = history.billed[t])

\* screen raised on its third call, after two malformed responses of which
\* one had cost a unit.
C26_Witness ==
    /\ op = "screen"
    /\ outcome.kind = "raised"
    /\ outcome.exc = "RateLimitError"
    /\ provider.malformed = 2
    /\ provider.calls = 3
    /\ metrics["detailed_screener"].total_cost = 1
    /\ history.billed["detailed_screener"] = 1

\* C27: for every value of max_retries, a transport call that is over has
\* returned a (text, cost) pair or has raised: it has not returned without
\* a result.
C27_CallEndsWithPairOrRaise ==
    (transport.pc = "idle" /\ transport.result.kind # "none") =>
        transport.result.kind \in { "pair", "raised" }

\* ------------------------------------------- a ScreeningMetrics on its own

\* A caller uses a ScreeningMetrics through its four methods.
Updates ==
    tally.metrics.total_cost + tally.metrics.total_disagreements
        + tally.metrics.total_processed

AddCost ==
    /\ Updates < MaxUpdates
    /\ \E cost \in Costs \ { 0 } :
        tally' = [ metrics |-> add_cost(tally.metrics, cost), summary |-> NoSummary ]
    /\ UNCHANGED << agent, outsideTally >>

AddDisagreement ==
    /\ Updates < MaxUpdates
    /\ tally' = [ metrics |-> add_disagreement(tally.metrics), summary |-> NoSummary ]
    /\ UNCHANGED << agent, outsideTally >>

IncrementProcessed ==
    /\ Updates < MaxUpdates
    /\ tally' = [ metrics |-> increment_processed(tally.metrics), summary |-> NoSummary ]
    /\ UNCHANGED << agent, outsideTally >>

GetSummary ==
    /\ tally' = [ tally EXCEPT !.summary = get_summary(tally.metrics) ]
    /\ UNCHANGED << agent, outsideTally >>

NextMetrics == AddCost \/ AddDisagreement \/ IncrementProcessed \/ GetSummary

SpecMetrics == Init /\ [][NextMetrics]_vars

\* C28: get_summary never divides by zero.  The summary of metrics with
\* total_processed = 0 gives total_cost itself as avg_cost_per_article
\* (total_cost over 1), and with total_processed = n >= 1 it gives
\* total_cost over n.
C28_AverageNeverDividesByZero ==
    tally.summary # NoSummary =>
        LET avg == tally.summary.avg_cost_per_article
            n == tally.metrics.total_processed
        IN  /\ avg.divisor # 0
            /\ avg.dividend = tally.metrics.total_cost
            /\ n = 0 => avg.divisor = 1
            /\ n >= 1 => avg.divisor = n

\* A summary of metrics with three cost units and two articles processed.
C28_Witness ==
    /\ tally.summary # NoSummary
    /\ tally.metrics.total_processed = 2
    /\ tally.metrics.total_cost = 3
    /\ tally.summary.avg_cost_per_article = [ dividend |-> 3, divisor |-> 2 ]

\* --------------------------------------------------------- remove_duplicates

\* Files and lines a remove_duplicates call goes through.
MaxFiles == 2
MaxLines == 3

\* The lines the input files may hold, without their line end: titles alone,
\* titles followed by ';' or '$$$' and more, with both, in either order,
\* blank lines and the metadata line.
InputLines ==
    { << "a", ";", "x" >>,
      << " ", "A", " ", ";", "x" >>,
      << "a", "." >>,
      << "b", "$", "$", "$", "x" >>,
      << "b", "$", "$", "$", "x", ";", "y" >>,
      << "c", ";", "x", "$", "$", "$", "y" >>,
      << " ", " " >>,
      << "T", "o", "t", "a", "l", " ", "d", "i", "s", "a", "g", "r", "e", "e", "m", "e", "n", "t", "s", ":", " ", "2" >>,
      << ";", "x" >> }

\* The lists of ground-truth titles a caller may pass as included_articles.
IncludedLists == { << >>, << << "A" >> >>, << << "A" >>, << "b", "." >> >> }

Semicolon == << ";" >>
Dollars == << "$", "$", "$" >>
TotalDisagreements == << "T", "o", "t", "a", "l", " ", "d", "i", "s", "a", "g", "r", "e", "e", "m", "e", "n", "t", "s" >>

\* str.lower, over the letters the lines hold
LowerStr(s) ==
    [ i \in 1 .. Len(s) |->
        CASE s[i] = "A" -> "a"
          [] s[i] = "T" -> "t"
          [] OTHER -> s[i] ]

\* str.strip: the string without its leading and trailing white space.
Strip(s) ==
    LET inked == { i \in 1 .. Len(s) : s[i] # " " }
    IN  IF inked = {} THEN << >>
        ELSE LET first == CHOOSE i \in inked : \A j \in inked : i <= j
                 last == CHOOSE i \in inked : \A j \in inked : i >= j
             IN  SubSeq(s, first, last)

\* `sub in s`: the positions at which sub occurs in s.
Occurrences(sub, s) ==
    { i \in 1 .. (Len(s) - Len(sub) + 1) : SubSeq(s, i, i + Len(sub) - 1) = sub }

\* `sub in s`
In(sub, s) == Occurrences(sub, s) # {}

\* s.split(sub)[0]: s up to the first occurrence of sub, all of s without one.
SplitFirst(s, sub) ==
    IF ~In(sub, s) THEN s
    ELSE LET at == CHOOSE i \in Occurrences(sub, s) :
                        \A j \in Occurrences(sub, s) : i <= j
         IN  SubSeq(s, 1, at - 1)

\* str.endswith(".")
EndsWithPeriod(s) == Len(s) > 0 /\ s[Len(s)] = "."

normalize_title_keeps_case(title) ==
    LET normalized == Strip(title)
    IN  IF EndsWithPeriod(normalized) THEN normalized ELSE normalized \o << "." >>

\* DuplicateRemover._normalize_title
normalize_title(title) ==
    LET normalized == LowerStr(Strip(title))
    IN  IF EndsWithPeriod(normalized) THEN normalized ELSE normalized \o << "." >>

\* remove_duplicates, `# Extract title (before ; or $$$)`
extract_title(line) ==
    IF In(Semicolon, line) THEN SplitFirst(line, Semicolon)
    ELSE IF In(Dollars, line) THEN SplitFirst(line, Dollars)
    ELSE line

\* remove_duplicates, `if not line or "Total disagreements" in line: continue`
skipped(line) == line = << >> \/ In(TotalDisagreements, line)

unseen_always(normalized_title, seen_titles) == TRUE

\* remove_duplicates, `if normalized_title not in seen_titles`
unseen(normalized_title, seen_titles) == normalized_title \notin seen_titles

\* The line remove_duplicates writes before the included titles, after a
\* blank line.
Heading == << "Included target articles are as follow:" >>

\* remove_duplicates(input_files, output_filename, included_articles) up to
\* its first `for`: the locals are set and the output file is opened.
RemoveDuplicates(included_articles) ==
    /\ dedup.pc = "idle"
    /\ dedup' = [ NoDedup EXCEPT
            !.pc = "files",
            !.included_set =
                { normalize_title(included_articles[i]) : i \in DOMAIN included_articles } ]
    /\ UNCHANGED << agent, outsideDedup >>

\* `for input_filename in input_files`: the next file is missing and is
\* passed over, or it is opened.
NextFile ==
    /\ dedup.pc = "files"
    /\ dedup.files < MaxFiles
    /\ \E exists \in BOOLEAN :
        dedup' = [ dedup EXCEPT
            !.files = @ + 1,
            !.pc = IF exists THEN "lines" ELSE "files" ]
    /\ UNCHANGED << agent, outsideDedup >>

\* The locals and the output file after the body of `for line in input_file`
\* on the line raw.
after_line(d, raw) ==
    LET line == Strip(raw)
    IN  IF skipped(line) THEN d
        ELSE LET raw_title == extract_title(line)
                 normalized_title == normalize_title(raw_title)
                 counted == [ d EXCEPT
                     !.total_processed = @ + 1,
                     !.titles = Append(@, normalized_title),
                     !.last = [ line |-> line, raw_title |-> raw_title ] ]
             IN  IF unseen(normalized_title, d.seen_titles)
                 THEN [ counted EXCEPT
                     !.output = Append(@, normalized_title),
                     !.seen_titles = @ \cup { normalized_title },
                     !.total_unique = @ + 1,
                     !.included_found =
                         IF normalized_title \in d.included_set
                         THEN Append(@, normalized_title) ELSE @ ]
                 ELSE counted

\* One line of the open input file is read and gone through.
ReadLine ==
    /\ dedup.pc = "lines"
    /\ dedup.lines < MaxLines
    /\ \E raw \in InputLines :
        dedup' = [ after_line(dedup, raw) EXCEPT !.lines = @ + 1 ]
    /\ UNCHANGED << agent, outsideDedup >>

\* The open input file has no more lines.
EndOfFile ==
    /\ dedup.pc = "lines"
    /\ dedup' = [ dedup EXCEPT !.pc = "files" ]
    /\ UNCHANGED << agent, outsideDedup >>

\* input_files has no more names: the section of the included titles is
\* written and the stats are returned.
Finish ==
    /\ dedup.pc = "files"
    /\ dedup' = [ dedup EXCEPT
            !.pc = "done",
            !.output = @ \o << << >>, Heading >> \o dedup.included_found,
            !.stats = [ total_processed |-> dedup.total_processed,
                        total_unique |-> dedup.total_unique,
                        duplicates_removed |-> dedup.total_processed - dedup.total_unique,
                        included_found |-> Len(dedup.included_found),
                        included_articles |-> dedup.included_found ] ]
    /\ UNCHANGED << agent, outsideDedup >>

NextDedup ==
    \/ \E included_articles \in IncludedLists : RemoveDuplicates(included_articles)
    \/ NextFile
    \/ ReadLine
    \/ EndOfFile
    \/ Finish

SpecDedup == Init /\ [][NextDedup]_vars

\* The elements of a sequence.
Range(seq) == { seq[i] : i \in DOMAIN seq }

\* A sequence without the later repetitions of its elements.
RECURSIVE FirstOccurrences(_)
FirstOccurrences(seq) ==
    IF seq = << >> THEN << >>
    ELSE LET front == SubSeq(seq, 1, Len(seq) - 1)
             finish == seq[Len(seq)]
         IN  IF finish \in Range(front) THEN FirstOccurrences(front)
             ELSE Append(FirstOccurrences(front), finish)

\* The statistics the claim states, of the stats a finished call returned.
StatsAddUp ==
    /\ dedup.stats.total_unique = Cardinality(Range(dedup.titles))
    /\ dedup.stats.total_unique + dedup.stats.duplicates_removed
            = dedup.stats.total_processed

\* C29 as stated: after remove_duplicates the output file lists every
\* normalized title at most once, in order of first occurrence, and the
\* stats add up.
C29_OutputListsEachTitleOnce ==
    dedup.pc = "done" =>
        /\ \A i, j \in DOMAIN dedup.output :
                (i # j /\ dedup.output[i] \in Range(dedup.titles)) =>
                    dedup.output[i] # dedup.output[j]
        /\ StatsAddUp

\* C29 amended: the output file begins with every normalized title seen,
\* once each, in order of first occurrence; after a blank line and the
\* heading it lists again, in the same order, those of them that are in
\* the included set; and the stats add up, total_processed being the number
\* of lines that were neither blank nor metadata.
C29_TitlesOnceThenIncluded ==
    LET firsts == FirstOccurrences(dedup.titles)
        n == Len(firsts)
        Included(title) == title \in dedup.included_set
    IN  /\ dedup.pc \in { "files", "lines" } => dedup.output = firsts
        /\ dedup.pc = "done" =>
                /\ Len(dedup.output) >= n + 2
                /\ SubSeq(dedup.output, 1, n) = firsts
                /\ dedup.output[n + 1] = << >>
                /\ dedup.output[n + 2] = Heading
                /\ SubSeq(dedup.output, n + 3, Len(dedup.output))
                        = SelectSeq(firsts, Included)
                /\ StatsAddUp
                /\ dedup.stats.total_processed = Len(dedup.titles)

\* A finished call over three lines with the titles 'a.', 'b.' and 'a.'
\* again, with 'a.' and 'b.' included: 'a.' and 'b.' are listed, then both
\* again after the heading.
C29_Witness ==
    /\ dedup.pc = "done"
    /\ dedup.titles = << << "a", "." >>, << "b", "." >>, << "a", "." >> >>
    /\ dedup.output = << << "a", "." >>, << "b", "." >>, << >>, Heading,
                         << "a", "." >>, << "b", "." >> >>
    /\ dedup.stats.total_processed = 3
    /\ dedup.stats.total_unique = 2
    /\ dedup.stats.duplicates_removed = 1

\* Where the first delimiter of a line stands, be it ';' or '$$$'.
FirstDelimiterAt(line) ==
    LET at == Occurrences(Semicolon, line) \cup Occurrences(Dollars, line)
    IN  CHOOSE i \in at : \A j \in at : i <= j

\* C30: the title taken from a line that holds a delimiter is the part of
\* the line before the first occurrence of ';' or '$$$', and holds neither.
C30_TitleBeforeFirstDelimiter ==
    LET line == dedup.last.line
        raw_title == dedup.last.raw_title
    IN  (line # NoLine /\ (In(Semicolon, line) \/ In(Dollars, line))) =>
            /\ raw_title = SubSeq(line, 1, FirstDelimiterAt(line) - 1)
            /\ ~In(Semicolon, raw_title)
            /\ ~In(Dollars, raw_title)

\* ---------------------------------------------------------------------------
\* RISParser: parse_file over the lines of a RIS file.
\* ---------------------------------------------------------------------------

MaxRisLines == 5

\* The lines a RIS file may hold, without their line end: two titles, an
\* abstract, another tag, the end-of-record tag and a line without a tag.
ErLine == << "E", "R", " ", " ", "-", " " >>
RisLines ==
    { << "T", "I", " ", " ", "-", " ", "t" >>,
      << "T", "I", " ", " ", "-", " ", "u" >>,
      << "A", "B", " ", " ", "-", " ", "a" >>,
      << "A", "U", " ", " ", "-", " ", "x" >>,
      ErLine,
      << "c" >> }

TI == << "T", "I" >>
AB == << "A", "B" >>

\* None, where a string is expected.
NoContent == << "<none>" >>

\* str.startswith
StartsWith(s, prefix) ==
    Len(s) >= Len(prefix) /\ SubSeq(s, 1, Len(prefix)) = prefix

\* RISParser._is_tag_line
is_tag_line(line) ==
    In(<< " ", " ", "-", " " >>, line) \/ In(<< " ", " ", "-", " ", " " >>, line)

\* RISParser._extract_tag_content: the patterns are tried in the order of
\* the list; split(pattern, 1)[1] of a string that starts with the pattern is
\* what follows the pattern.
extract_tag_content(line, tag) ==
    LET stripped == Strip(line)
        wide == tag \o << " ", " ", "-", " ", " " >>
        narrow == tag \o << " ", " ", "-", " " >>
    IN  IF StartsWith(stripped, wide)
            THEN SubSeq(stripped, Len(wide) + 1, Len(stripped))
        ELSE IF StartsWith(stripped, narrow)
            THEN SubSeq(stripped, Len(narrow) + 1, Len(stripped))
        ELSE NoContent

\* reset(), as parse_line does it field by field after a complete entry
reset_after_entry(p) ==
    [ p EXCEPT !.current_title = << >>, !.current_abstract = << >>,
               !.in_title = FALSE, !.in_abstract = FALSE ]

\* No entry: what parse_line returns on a line that completes nothing.
NoEntryYet == << >>

\* RISParser.parse_line: the parser after the line, and what is returned.
parse_line(p, line) ==
    LET title_content == extract_tag_content(line, TI)
        abstract_content == extract_tag_content(line, AB)
    IN  IF title_content # NoContent THEN
            [ parser |-> [ p EXCEPT !.current_title = title_content,
                                    !.in_title = TRUE, !.in_abstract = FALSE ],
              result |-> NoEntryYet ]
        ELSE IF abstract_content # NoContent THEN
            [ parser |-> [ p EXCEPT !.current_abstract = abstract_content,
                                    !.in_abstract = TRUE, !.in_title = FALSE ],
              result |-> NoEntryYet ]
        ELSE IF ~is_tag_line(line) THEN
            LET content == Strip(line)
            IN  [ parser |->
                    IF p.in_title
                        THEN [ p EXCEPT !.current_title = @ \o << " " >> \o content ]
                    ELSE IF p.in_abstract
                        THEN [ p EXCEPT !.current_abstract = @ \o << " " >> \o content ]
                    ELSE p,
                  result |-> NoEntryYet ]
        ELSE IF p.current_title # << >> /\ p.current_abstract # << >> THEN
            [ parser |-> reset_after_entry(p),
              result |-> << p.current_title, p.current_abstract >> ]
        ELSE
            [ parser |-> [ p EXCEPT !.in_title = FALSE, !.in_abstract = FALSE ],
              result |-> NoEntryYet ]

\* parse_file(filepath) up to its `for`: reset(), entries = [], the file is
\* opened.  The parser may have parsed a file before.
ParseFile ==
    /\ ris.pc \in { "idle", "done" }
    /\ ris' = [ NoRis EXCEPT !.pc = "lines" ]
    /\ UNCHANGED << agent, outsideRis >>

\* One turn of `for line in f`.
ParseLine ==
    /\ ris.pc = "lines"
    /\ Len(ris.lines) < MaxRisLines
    /\ \E line \in RisLines :
         LET after == parse_line(ris, line)
         IN  ris' = [ after.parser EXCEPT
                        !.lines = Append(@, line),
                        !.entries = IF after.result # NoEntryYet
                                        THEN Append(@, after.result) ELSE @ ]
    /\ UNCHANGED << agent, outsideRis >>

\* The file is at its end: the last entry is handled and the list returned.
ParseEnd ==
    /\ ris.pc = "lines"
    /\ ris' = [ ris EXCEPT
                  !.pc = "done",
                  !.entries = IF ris.current_title # << >> /\ ris.current_abstract # << >>
                                  THEN Append(@, << ris.current_title, ris.current_abstract >>)
                                  ELSE @ ]
    /\ UNCHANGED << agent, outsideRis >>

NextRis == ParseFile \/ ParseLine \/ ParseEnd

SpecRis == Init /\ [][NextRis]_vars

\* The records of a file: each runs up to and with its 'ER  - ' line; lines
\* after the last such line make a record that has no end.
RECURSIVE RecordsOf(_)
RecordsOf(lines) ==
    LET ends == { i \in 1 .. Len(lines) : lines[i] = ErLine }
    IN  IF lines = << >> THEN << >>
        ELSE IF ends = {} THEN << lines >>
        ELSE LET end == CHOOSE i \in ends : \A j \in ends : i <= j
             IN  << SubSeq(lines, 1, end) >> \o RecordsOf(SubSeq(lines, end + 1, Len(lines)))

\* Every record of the file ends with an 'ER  - ' line.
EveryRecordEnds(lines) == lines = << >> \/ lines[Len(lines)] = ErLine

\* The contents of the record's lines with the tag.
ContentsOf(record, tag) ==
    { extract_tag_content(record[i], tag) : i \in 1 .. Len(record) } \ { NoContent }

\* The record has both a TI line and an AB line.
HasBoth(record) == ContentsOf(record, TI) # {} /\ ContentsOf(record, AB) # {}

\* The entry is made of the record's title and abstract: each begins with
\* what a line of the record gives for it.
MadeOf(entry, record) ==
    /\ \E title \in ContentsOf(record, TI) : StartsWith(entry[1], title)
    /\ \E abstract \in ContentsOf(record, AB) : StartsWith(entry[2], abstract)

\* C31: for a file in which every record ends with an 'ER  - ' line,
\* parse_file returns one entry for each record that has both a TI and an AB
\* line, in the order of the file, made of that record's title and abstract;
\* records without one of the two give no entry and no text.
C31_OneEntryPerCompleteRecord ==
    (ris.pc = "done" /\ EveryRecordEnds(ris.lines)) =>
        LET complete == SelectSeq(RecordsOf(ris.lines), HasBoth)
        IN  /\ Len(ris.entries) = Len(complete)
            /\ \A k \in 1 .. Len(complete) : MadeOf(ris.entries[k], complete[k])

\* ---------------------------------------------------------------------------
\* ScreeningMetricsCalculator: evaluate_reference and its confusion matrix.
\* ---------------------------------------------------------------------------

MaxDataFiles == 2
MaxDataLines == 2

\* The lines a data file or a result file may hold, without their line end.
DataLines ==
    { << "a", "$", "$", "$", "x" >>,
      << " ", "A", "$", "$", "$", "y" >>,
      << "b", "$", "$", "$", "x" >>,
      << "c" >> }

\* The files: every sequence of at most MaxDataLines lines.
DataFiles == UNION { [ 1 .. n -> DataLines ] : n \in 0 .. MaxDataLines }

\* ScreeningMetricsCalculator._normalize_title
calculator_normalize_title(title) ==
    LET normalized == LowerStr(Strip(title))
    IN  IF EndsWithPeriod(normalized) THEN normalized ELSE normalized \o << "." >>

\* ScreeningMetricsCalculator._parse_data_file: the normalized titles of the
\* lines that hold '$$$', in the order of the file.
RECURSIVE parse_data_file(_)
parse_data_file(file) ==
    IF file = << >> THEN << >>
    ELSE LET line == Strip(Head(file))
             rest == parse_data_file(Tail(file))
         IN  IF line = << >> \/ In(TotalDisagreements, line) THEN rest
             ELSE IF In(Dollars, line)
                 THEN << calculator_normalize_title(Strip(SplitFirst(line, Dollars))) >> \o rest
             ELSE rest

\* set(titles)
SetOf(titles) == { titles[i] : i \in 1 .. Len(titles) }

\* `x / y if y > 0 else 0`, as the pair of numerator and denominator.
Rate(x, y) == IF y > 0 THEN << x, y >> ELSE << 0, 1 >>

\* ScreeningMetricsCalculator.calculate_metrics
calculate_metrics(raw_articles, filtered_articles, included_articles, total_raw) ==
    LET included_in_raw == raw_articles \cap included_articles
        included_in_filtered == filtered_articles \cap included_articles
        tp == Cardinality(included_in_filtered)
        fn == Cardinality(included_in_raw \ included_in_filtered)
        fp == Cardinality(filtered_articles \ included_articles)
        tn == total_raw - tp - fn - fp
    IN  [ true_positives |-> tp,
          false_negatives |-> fn,
          false_positives |-> fp,
          true_negatives |-> tn,
          total |-> total_raw,
          false_positive_rate |-> Rate(fp, fp + tn),
          false_negative_rate |-> Rate(fn, fn + tp),
          sensitivity |-> Rate(tp, tp + fn),
          specificity |-> Rate(tn, tn + fp),
          precision |-> Rate(tp, tp + fp),
          missed_articles |-> included_in_raw \ included_in_filtered ]

\* evaluate_reference(reference_idx, result_filename, included_articles) up
\* to the `for filepath in data_files` of get_raw_articles.
EvaluateReference ==
    /\ matrix.pc \in { "idle", "done" }
    /\ \E included_articles \in IncludedLists :
         matrix' = [ NoMatrix EXCEPT
                       !.pc = "raw",
                       !.included_set = { calculator_normalize_title(included_articles[i]) :
                                            i \in 1 .. Len(included_articles) } ]
    /\ UNCHANGED << agent, outsideMatrix >>

\* One turn of `for filepath in data_files`.
ReadDataFile ==
    /\ matrix.pc = "raw"
    /\ matrix.files < MaxDataFiles
    /\ \E file \in DataFiles :
         LET titles == parse_data_file(file)
         IN  matrix' = [ matrix EXCEPT
                           !.files = @ + 1,
                           !.total_count = @ + Len(titles),
                           !.all_titles = @ \cup SetOf(titles) ]
    /\ UNCHANGED << agent, outsideMatrix >>

\* get_raw_articles returns: with no data file it returns (set(), 0), which
\* is what the loop leaves after no turn.
GetRawArticles ==
    /\ matrix.pc = "raw"
    /\ matrix' = [ matrix EXCEPT !.pc = "filtered" ]
    /\ UNCHANGED << agent, outsideMatrix >>

\* get_filtered_articles: the titles of the result file, none when the file
\* is missing.
GetFilteredArticles ==
    /\ matrix.pc = "filtered"
    /\ \E exists \in BOOLEAN, file \in DataFiles :
         /\ ~exists => file = << >>
         /\ matrix' = [ matrix EXCEPT
                          !.pc = "counted",
                          !.filtered_articles = SetOf(parse_data_file(file)) ]
    /\ UNCHANGED << agent, outsideMatrix >>

\* calculate_metrics(raw_articles, filtered_articles, included_set, total_raw)
CalculateMetrics ==
    /\ matrix.pc = "counted"
    /\ matrix' = [ matrix EXCEPT
                     !.pc = "done",
                     !.metrics = calculate_metrics(matrix.all_titles, matrix.filtered_articles,
                                                   matrix.included_set, matrix.total_count) ]
    /\ UNCHANGED << agent, outsideMatrix >>

NextMatrix ==
    \/ EvaluateReference
    \/ ReadDataFile
    \/ GetRawArticles
    \/ GetFilteredArticles
    \/ CalculateMetrics

SpecMatrix == Init /\ [][NextMatrix]_vars

\* C32: with total_raw at least the number of raw titles, the four counts of
\* calculate_metrics add up to total_raw and none of them is negative.
C32_CountsAddUpAndNonNegative ==
    (matrix.pc = "done" /\ matrix.total_count >= Cardinality(matrix.all_titles)) =>
        LET m == matrix.metrics
        IN  /\ m.true_positives + m.false_negatives + m.false_positives
                   + m.true_negatives = m.total
            /\ m.true_positives >= 0
            /\ m.false_negatives >= 0
            /\ m.false_positives >= 0
            /\ m.true_negatives >= 0

\* ---------------------------------------------------------------------------
\* batch_remove_duplicates and batch_extract: one call per key of a mapping.
\* ---------------------------------------------------------------------------

MaxKeys == 3

\* The batch methods: the first calls remove_duplicates once for every key,
\* the second extract_from_file.
BatchMethods == { "batch_remove_duplicates", "batch_extract" }

\* The keys of a dictionary, file names, in the order of items(): no key
\* stands twice.
KeyLists ==
    { keys \in UNION { [ 1 .. n -> { "f1", "f2", "f3" } ] : n \in 0 .. MaxKeys } :
        \A i, j \in 1 .. Len(keys) : keys[i] = keys[j] => i = j }

\* str(e) of the exceptions a call may raise.
Messages == { "Input file not found", "Permission denied" }

\* The statistics a call may return: the dictionary of remove_duplicates or
\* of extract_from_file, by its count.
StatsOf(method) ==
    IF method = "batch_remove_duplicates"
        THEN { [ total_processed |-> n ] : n \in 0 .. 1 }
        ELSE { [ entries_extracted |-> n ] : n \in 0 .. 1 }

after_call_raised_reraise(b, key, message) ==
    [ b EXCEPT !.pc = "raised", !.calls = Append(@, [ kind |-> "raise", message |-> message ]) ]

\* `except Exception as e: results[key] = {"error": str(e)}`, and the loop
\* goes on
after_call_raised(b, key, message) ==
    [ b EXCEPT !.calls = Append(@, [ kind |-> "raise", message |-> message ]),
               !.results = (key :> [ error |-> message ]) @@ @ ]

\* `stats = ...; results[key] = stats`
after_call_returned(b, key, stats) ==
    [ b EXCEPT !.calls = Append(@, [ kind |-> "return", stats |-> stats ]),
               !.results = (key :> stats) @@ @ ]

\* batch_remove_duplicates(file_groups, included_articles_map) or
\* batch_extract(file_mapping) up to the `for`: results = {}.
BatchCall ==
    /\ batch.pc \in { "idle", "done" }
    /\ \E method \in BatchMethods, keys \in KeyLists :
         batch' = [ NoBatch EXCEPT !.pc = "loop", !.method = method, !.keys = keys ]
    /\ UNCHANGED << agent, outsideBatch >>

\* One turn of the `for` in which the call returns its statistics.
KeyReturns ==
    /\ batch.pc = "loop"
    /\ Len(batch.calls) < Len(batch.keys)
    /\ \E stats \in StatsOf(batch.method) :
         batch' = after_call_returned(batch, batch.keys[Len(batch.calls) + 1], stats)
    /\ UNCHANGED << agent, outsideBatch >>

\* One turn of the `for` in which the call raises.
KeyRaises ==
    /\ batch.pc = "loop"
    /\ Len(batch.calls) < Len(batch.keys)
    /\ \E message \in Messages :
         batch' = after_call_raised(batch, batch.keys[Len(batch.calls) + 1], message)
    /\ UNCHANGED << agent, outsideBatch >>

\* `return results`
BatchReturn ==
    /\ batch.pc = "loop"
    /\ Len(batch.calls) = Len(batch.keys)
    /\ batch' = [ batch EXCEPT !.pc = "done" ]
    /\ UNCHANGED << agent, outsideBatch >>

NextBatch == BatchCall \/ KeyReturns \/ KeyRaises \/ BatchReturn

SpecBatch == Init /\ [][NextBatch]_vars

\* C33: a call that fails for one key does not stop the batch.  The batch
\* never ends by raising; the result it returns has exactly the keys of the
\* mapping; a key whose call raised maps to {'error': message}, and a key
\* whose call returned maps to its statistics, also after a failure.
C33_FailureDoesNotStopTheBatch ==
    /\ batch.pc # "raised"
    /\ batch.pc = "done" =>
         /\ DOMAIN batch.results = { batch.keys[i] : i \in 1 .. Len(batch.keys) }
         /\ \A i \in 1 .. Len(batch.keys) :
              batch.results[batch.keys[i]] =
                  IF batch.calls[i].kind = "raise"
                      THEN [ error |-> batch.calls[i].message ]
                      ELSE batch.calls[i].stats

\* A batch of three keys has returned: the call for the first key raised,
\* and the third key has its statistics.
C33_Witness ==
    /\ batch.pc = "done"
    /\ Len(batch.keys) = 3
    /\ batch.calls[1].kind = "raise"
    /\ batch.calls[3].kind = "return"
    /\ batch.results[batch.keys[1]] = [ error |-> batch.calls[1].message ]
    /\ batch.results[batch.keys[3]] = batch.calls[3].stats

====
